---- MODULE Spec2Model ----
(***************************************************************************)
(* Model of calc.py: the Lexer (get_next_token, read_integer) and the      *)
(* Interpreter (ar_expr, continue_ar_expr, validate_and_advance_token),    *)
(* run on one input text.  The two mutually recursive methods are modelled *)
(* with an explicit call stack; an uncaught Python exception empties the   *)
(* stack and ends the run with status "error".                             *)
(***************************************************************************)
EXTENDS Integers, Sequences, FiniteSets, TLC

\* ---------------------------------------------------------------- bounds
\* longest input text over InputChars
MaxLen == 5
\* longest input text that may also contain spaces and tabs
MaxWsLen == 4

\* ---------------------------------------------------------- token types
INTEGER == "INTEGER"
PLUS == "PLUS"
MINUS == "MINUS"
MULTIPLICATION == "MULTIPLICATION"
DIVISION == "DIVISION"
EOF == "EOF"
OPEN_BRACKET == "OPEN_BRACKET"
CLOSING_BRACKET == "CLOSING_BRACKET"

\* ------------------------------------------------------- Python values
\* A Python value held in Token.value or returned by a method: an int, a
\* str (sequence of characters) or None.  The kinds "TypeError" and
\* "ZeroDivisionError" stand for an operator raising that exception.
IntV(i) == [k |-> "int", n |-> i, s |-> <<>>]
StrV(str) == [k |-> "str", n |-> 0, s |-> str]
NoneV == [k |-> "none", n |-> 0, s |-> <<>>]
RaisedV(kind) == [k |-> kind, n |-> 0, s |-> <<>>]

IsRaised(v) == v.k \in {"TypeError", "ZeroDivisionError"}

\* str * n: n copies of str, the empty string for n <= 0
Repeat(str, n) ==
    IF n <= 0 THEN <<>>
    ELSE [i \in 1..(n * Len(str)) |-> str[((i - 1) % Len(str)) + 1]]

\* Python's a + b
PyAdd(a, b) ==
    IF a.k = "int" /\ b.k = "int" THEN IntV(a.n + b.n)
    ELSE IF a.k = "str" /\ b.k = "str" THEN StrV(a.s \o b.s)
    ELSE RaisedV("TypeError")

PyNegNoSign(a) ==
    IF a.k = "int" THEN IntV(a.n) ELSE RaisedV("TypeError")

\* Python's unary -a
PyNeg(a) ==
    IF a.k = "int" THEN IntV(0 - a.n) ELSE RaisedV("TypeError")

\* Python's a * b
PyMul(a, b) ==
    IF a.k = "int" /\ b.k = "int" THEN IntV(a.n * b.n)
    ELSE IF a.k = "int" /\ b.k = "str" THEN StrV(Repeat(b.s, a.n))
    ELSE IF a.k = "str" /\ b.k = "int" THEN StrV(Repeat(a.s, b.n))
    ELSE RaisedV("TypeError")

\* floor(a / b) for b # 0, rounding toward negative infinity
FloorDiv(a, b) ==
    LET aa == IF a < 0 THEN 0 - a ELSE a
        bb == IF b < 0 THEN 0 - b ELSE b
        q  == aa \div bb
    IN  IF (a < 0) = (b < 0) THEN q
        ELSE IF q * bb = aa THEN 0 - q ELSE 0 - q - 1

\* Python's a // b
PyFloorDiv(a, b) ==
    IF a.k = "int" /\ b.k = "int"
    THEN IF b.n = 0 THEN RaisedV("ZeroDivisionError")
         ELSE IntV(FloorDiv(a.n, b.n))
    ELSE RaisedV("TypeError")

\* ---------------------------------------------------------------- Token
Token(type, value) == [type |-> type, value |-> value]
\* current_token before the first get_next_token (None)
NoToken == Token("None", NoneV)

\* ---------------------------------------------------------------- Lexer
DigitChars == {"0", "1", "2", "3", "4", "5", "6", "7", "8", "9"}

\* str.isdigit() on one character
IsDigit(c) == c \in DigitChars

DigitValue(c) ==
    CASE c = "0" -> 0 [] c = "1" -> 1 [] c = "2" -> 2 [] c = "3" -> 3
      [] c = "4" -> 4 [] c = "5" -> 5 [] c = "6" -> 6 [] c = "7" -> 7
      [] c = "8" -> 8 [] c = "9" -> 9

RECURSIVE PyInt(_)
\* int(str) of a string of decimal digits
PyInt(str) ==
    IF str = <<>> THEN 0
    ELSE 10 * PyInt(SubSeq(str, 1, Len(str) - 1)) + DigitValue(str[Len(str)])

RECURSIVE read_integer_loop(_, _, _)
\* the while loop of read_integer; p is the 0-based self.pos
read_integer_loop(txt, p, current_char) ==
    IF IsDigit(txt[p + 1])
    THEN IF p + 1 = Len(txt)
         THEN [value |-> Append(current_char, txt[p + 1]), pos |-> p + 1]
         ELSE read_integer_loop(txt, p + 1, Append(current_char, txt[p + 1]))
    ELSE [value |-> current_char, pos |-> p]

read_integer(txt, p) ==
    LET r == read_integer_loop(txt, p, <<"0">>)
    IN  [value |-> PyInt(r.value), pos |-> r.pos]

\* the characters get_next_token skips
IsSkipped(c) == c = " "

RECURSIVE get_next_token(_, _)
\* Result of Lexer.get_next_token with self.pos = p: the token, the new
\* self.pos, and err = TRUE when Lexer.error() raises.
get_next_token(txt, p) ==
    IF p > Len(txt) - 1 THEN [tok |-> Token(EOF, NoneV), pos |-> p, err |-> FALSE]
    ELSE LET current_char == txt[p + 1] IN
         IF IsDigit(current_char)
         THEN LET r == read_integer(txt, p)
              IN  [tok |-> Token(INTEGER, IntV(r.value)), pos |-> r.pos, err |-> FALSE]
         ELSE IF current_char = "+"
         THEN [tok |-> Token(PLUS, StrV(<<"+">>)), pos |-> p + 1, err |-> FALSE]
         ELSE IF current_char = "-"
         THEN [tok |-> Token(MINUS, StrV(<<"-">>)), pos |-> p + 1, err |-> FALSE]
         ELSE IF current_char = "/"
         THEN [tok |-> Token(DIVISION, StrV(<<"/">>)), pos |-> p + 1, err |-> FALSE]
         ELSE IF current_char = "*"
         THEN [tok |-> Token(MULTIPLICATION, StrV(<<"*">>)), pos |-> p + 1, err |-> FALSE]
         ELSE IF current_char = "("
         THEN [tok |-> Token(OPEN_BRACKET, StrV(<<"(">>)), pos |-> p + 1, err |-> FALSE]
         ELSE IF current_char = ")"
         THEN [tok |-> Token(CLOSING_BRACKET, StrV(<<")">>)), pos |-> p + 1, err |-> FALSE]
         ELSE IF IsSkipped(current_char)
         THEN get_next_token(txt, p + 1)
         ELSE [tok |-> NoToken, pos |-> p, err |-> TRUE]

\* ---------------------------------------------------------------- inputs
InputDigits == {"0", "1", "2"}
OperatorChars == {"+", "-", "*", "/"}
InputChars == InputDigits \cup OperatorChars \cup {"(", ")"}
WhitespaceChars == {" ", "\t"}

SeqsUpTo(S, n) == UNION {[1..m -> S] : m \in 0..n}

Texts == SeqsUpTo(InputChars, MaxLen) \cup SeqsUpTo(InputChars \cup WhitespaceChars, MaxWsLen)

\* ----------------------------------------------------------------- state
VARIABLES
    text,             \* Lexer.text
    pos,              \* Lexer.pos
    current_token,    \* Interpreter.current_token
    open_brackets,    \* Interpreter.open_brackets
    closed_brackets,  \* Interpreter.closed_brackets
    stack,            \* call stack of ar_expr / continue_ar_expr frames, top last
    ret,              \* value returned by the call that finished last
    status,           \* "running", "returned" or "error"
    error             \* what was raised: "" while none

vars == <<text, pos, current_token, open_brackets, closed_brackets, stack, ret, status, error>>

Frame(fn, pc, left, operation, right) ==
    [fn |-> fn, pc |-> pc, left |-> left, operation |-> operation, right |-> right]

ArExprFrame(pc) == Frame("ar_expr", pc, NoToken, "", NoToken)
ContinueFrame(left) == Frame("continue_ar_expr", "start", left, "", NoToken)

\* Interpreter(text), then the caller's pending call of ar_expr()
Init ==
    /\ text \in Texts
    /\ pos = 0
    /\ current_token = NoToken
    /\ open_brackets = 0
    /\ closed_brackets = 0
    /\ stack = <<ArExprFrame("start")>>
    /\ ret = NoneV
    /\ status = "running"
    /\ error = ""

Top == stack[Len(stack)]
Below == SubSeq(stack, 1, Len(stack) - 1)

\* an exception propagates out of every frame: nothing in calc.py catches it
Raise(kind) ==
    /\ status' = "error"
    /\ error' = kind
    /\ stack' = <<>>
    /\ ret' = NoneV

\* the top frame returns v to its caller
Return(v) ==
    /\ stack' = Below
    /\ ret' = v
    /\ status' = IF Len(stack) = 1 THEN "returned" ELSE "running"
    /\ error' = ""

\* the top frame moves to pc and calls the method whose fresh frame is callee
Call(frame, callee) ==
    /\ stack' = Below \o <<frame, callee>>
    /\ ret' = ret
    /\ status' = "running"
    /\ error' = ""

\* ar_expr from its entry to its first call or raise
ArExpr ==
    /\ status = "running"
    /\ Top.fn = "ar_expr" /\ Top.pc = "start"
    /\ LET first == get_next_token(text, pos) IN
       IF first.err
       THEN /\ Raise("Lexer.error")
            /\ pos' = first.pos
            /\ UNCHANGED <<text, current_token, open_brackets, closed_brackets>>
       ELSE LET left == first.tok IN
            IF left.type = OPEN_BRACKET
            THEN /\ open_brackets' = open_brackets + 1
                 /\ current_token' = left
                 /\ pos' = first.pos
                 /\ Call(ArExprFrame("tail"), ArExprFrame("start"))
                 /\ UNCHANGED <<text, closed_brackets>>
            ELSE IF left.type # INTEGER
            THEN /\ Raise("Interpreter.error")
                 /\ current_token' = left
                 /\ pos' = first.pos
                 /\ UNCHANGED <<text, open_brackets, closed_brackets>>
            ELSE LET next == get_next_token(text, first.pos) IN
                 IF next.err
                 THEN /\ Raise("Lexer.error")
                      /\ current_token' = left
                      /\ pos' = next.pos
                      /\ UNCHANGED <<text, open_brackets, closed_brackets>>
                 ELSE /\ current_token' = next.tok
                      /\ pos' = next.pos
                      /\ Call(ArExprFrame("after_continue"), ContinueFrame(left))
                      /\ UNCHANGED <<text, open_brackets, closed_brackets>>

\* ar_expr after continue_ar_expr returned: the bracket count check
ArExprCheckBrackets ==
    /\ status = "running"
    /\ Top.fn = "ar_expr" /\ Top.pc = "after_continue"
    /\ IF open_brackets # closed_brackets
       THEN Raise("Interpreter.error")
       ELSE Return(ret)
    /\ UNCHANGED <<text, pos, current_token, open_brackets, closed_brackets>>

\* "return self.ar_expr()" and "return self.continue_ar_expr(...)": the
\* caller hands the callee's value on
ReturnCallResult ==
    /\ status = "running"
    /\ Top.pc = "tail"
    /\ Return(ret)
    /\ UNCHANGED <<text, pos, current_token, open_brackets, closed_brackets>>

\* lines 182-193 of continue_ar_expr with left, operation and right known
ApplyOperation(left, operation, right) ==
    IF operation = PLUS
    THEN Call(Frame("continue_ar_expr", "after_operand", left, operation, right),
              ContinueFrame(Token(INTEGER, right.value)))
    ELSE IF operation = MINUS
    THEN LET negated == PyNeg(right.value) IN
         IF IsRaised(negated) THEN Raise(negated.k)
         ELSE Call(Frame("continue_ar_expr", "after_operand", left, operation, right),
                   ContinueFrame(Token(INTEGER, negated)))
    ELSE LET result == IF operation = MULTIPLICATION
                       THEN PyMul(left.value, right.value)
                       ELSE PyFloorDiv(left.value, right.value) IN
         IF IsRaised(result) THEN Raise(result.k)
         ELSE Call(Frame("continue_ar_expr", "tail", left, operation, right),
                   ContinueFrame(Token(INTEGER, result)))

\* continue_ar_expr from its entry to its first call, return or raise
ContinueArExpr ==
    /\ status = "running"
    /\ Top.fn = "continue_ar_expr" /\ Top.pc = "start"
    /\ LET left == Top.left
           operation == current_token.type
       IN
       IF operation = EOF
       THEN /\ Return(left.value)
            /\ UNCHANGED <<text, pos, current_token, open_brackets, closed_brackets>>
       ELSE
       LET eaten == IF operation \in {PLUS, MINUS, MULTIPLICATION, DIVISION}
                    THEN get_next_token(text, pos)
                    ELSE [tok |-> current_token, pos |-> pos, err |-> FALSE]
       IN
       IF eaten.err
       THEN /\ Raise("Lexer.error")
            /\ pos' = eaten.pos
            /\ UNCHANGED <<text, current_token, open_brackets, closed_brackets>>
       ELSE
       LET right == eaten.tok IN
       IF right.type = INTEGER
       THEN LET next == get_next_token(text, eaten.pos) IN
            IF next.err
            THEN /\ Raise("Lexer.error")
                 /\ current_token' = right
                 /\ pos' = next.pos
                 /\ UNCHANGED <<text, open_brackets, closed_brackets>>
            ELSE /\ current_token' = next.tok
                 /\ pos' = next.pos
                 /\ ApplyOperation(left, operation, right)
                 /\ UNCHANGED <<text, open_brackets, closed_brackets>>
       ELSE IF right.type = OPEN_BRACKET
       THEN /\ open_brackets' = open_brackets + 1
            /\ current_token' = right
            /\ pos' = eaten.pos
            /\ Call(Frame("continue_ar_expr", "after_brackets", left, operation, right),
                    ArExprFrame("start"))
            /\ UNCHANGED <<text, closed_brackets>>
       ELSE IF right.type = CLOSING_BRACKET
       THEN LET next == get_next_token(text, eaten.pos) IN
            IF next.err
            THEN /\ Raise("Lexer.error")
                 /\ current_token' = right
                 /\ pos' = next.pos
                 /\ UNCHANGED <<text, open_brackets, closed_brackets>>
            ELSE /\ current_token' = next.tok
                 /\ pos' = next.pos
                 /\ closed_brackets' = closed_brackets + 1
                 /\ Return(left.value)
                 /\ UNCHANGED <<text, open_brackets>>
       ELSE /\ current_token' = right
            /\ pos' = eaten.pos
            /\ ApplyOperation(left, operation, right)
            /\ UNCHANGED <<text, open_brackets, closed_brackets>>

\* continue_ar_expr after the bracketed ar_expr() returned right_value
ContinueAfterBrackets ==
    /\ status = "running"
    /\ Top.fn = "continue_ar_expr" /\ Top.pc = "after_brackets"
    /\ ApplyOperation(Top.left, Top.operation, Token(INTEGER, ret))
    /\ UNCHANGED <<text, pos, current_token, open_brackets, closed_brackets>>

\* continue_ar_expr after the recursive call of the PLUS / MINUS branch
\* returned: result = left.value + <returned>, then the final call
ContinueAfterOperand ==
    /\ status = "running"
    /\ Top.fn = "continue_ar_expr" /\ Top.pc = "after_operand"
    /\ LET result == PyAdd(Top.left.value, ret) IN
       IF IsRaised(result) THEN Raise(result.k)
       ELSE Call(Frame("continue_ar_expr", "tail", Top.left, Top.operation, Top.right),
                 ContinueFrame(Token(INTEGER, result)))
    /\ UNCHANGED <<text, pos, current_token, open_brackets, closed_brackets>>

Next ==
    \/ ArExpr
    \/ ArExprCheckBrackets
    \/ ReturnCallResult
    \/ ContinueArExpr
    \/ ContinueAfterBrackets
    \/ ContinueAfterOperand

Spec == Init /\ [][Next]_vars

Done == status \in {"returned", "error"}

\* ------------------------------------------------- reference semantics
\* The grammar the claims refer to, evaluated directly on the characters of
\* a whitespace-free text:
\*   expression := term (('+'|'-') term)*
\*   term       := factor (('*'|'/') factor)*
\*   factor     := INTEGER | '(' expression ')'
\* A result is [ok, val, next, dz]: whether a phrase was recognised, its
\* value, the 1-based index after it, and whether a divisor evaluated to 0.
CharAt(txt, i) == IF i >= 1 /\ i <= Len(txt) THEN txt[i] ELSE "end"

RefFail == [ok |-> FALSE, val |-> 0, next |-> 0, dz |-> FALSE]

RECURSIVE RefNumber(_, _, _)
RefNumber(txt, i, acc) ==
    IF IsDigit(CharAt(txt, i)) THEN RefNumber(txt, i + 1, 10 * acc + DigitValue(txt[i]))
    ELSE [ok |-> TRUE, val |-> acc, next |-> i, dz |-> FALSE]

RefCombine(op, l, r) ==
    [ok |-> TRUE,
     val |-> IF op = "+" THEN l.val + r.val
             ELSE IF op = "-" THEN l.val - r.val
             ELSE IF op = "*" THEN l.val * r.val
             ELSE IF r.val = 0 THEN 0 ELSE FloorDiv(l.val, r.val),
     next |-> r.next,
     dz |-> l.dz \/ r.dz \/ (op = "/" /\ r.val = 0)]

RECURSIVE RefExpression(_, _)
RECURSIVE RefExpressionRest(_, _)
RECURSIVE RefTerm(_, _)
RECURSIVE RefTermRest(_, _)
RECURSIVE RefFactor(_, _)

RefFactor(txt, i) ==
    IF IsDigit(CharAt(txt, i)) THEN RefNumber(txt, i, 0)
    ELSE IF CharAt(txt, i) = "("
    THEN LET e == RefExpression(txt, i + 1) IN
         IF e.ok /\ CharAt(txt, e.next) = ")" THEN [e EXCEPT !.next = e.next + 1]
         ELSE RefFail
    ELSE RefFail

RefTermRest(txt, l) ==
    IF CharAt(txt, l.next) \in {"*", "/"}
    THEN LET r == RefFactor(txt, l.next + 1) IN
         IF r.ok THEN RefTermRest(txt, RefCombine(txt[l.next], l, r)) ELSE RefFail
    ELSE l

RefTerm(txt, i) ==
    LET f == RefFactor(txt, i) IN IF f.ok THEN RefTermRest(txt, f) ELSE RefFail

RefExpressionRest(txt, l) ==
    IF CharAt(txt, l.next) \in {"+", "-"}
    THEN LET r == RefTerm(txt, l.next + 1) IN
         IF r.ok THEN RefExpressionRest(txt, RefCombine(txt[l.next], l, r)) ELSE RefFail
    ELSE l

RefExpression(txt, i) ==
    LET t == RefTerm(txt, i) IN IF t.ok THEN RefExpressionRest(txt, t) ELSE RefFail

Ref == RefExpression(text, 1)
\* the whole text is one expression of the grammar
Conforms == Ref.ok /\ Ref.next = Len(text) + 1
HasBrackets == \E i \in 1..Len(text) : text[i] \in {"(", ")"}

\* a chain: integers joined by operators from ops, nothing else
IsChain(txt, ops) ==
    /\ Len(txt) >= 1
    /\ \A i \in 1..Len(txt) : IsDigit(txt[i]) \/ txt[i] \in ops
    /\ IsDigit(txt[1]) /\ IsDigit(txt[Len(txt)])
    /\ \A i \in 1..(Len(txt) - 1) : txt[i] \in ops => IsDigit(txt[i + 1])

DivisorsNonZero(txt) ==
    \A i \in 1..Len(txt) : txt[i] = "/" => RefNumber(txt, i + 1, 0).val # 0

FoldStep(acc, op, cur) ==
    IF op = "+" THEN acc + cur
    ELSE IF op = "-" THEN acc - cur
    ELSE IF op = "*" THEN acc * cur
    ELSE FloorDiv(acc, cur)

RECURSIVE FoldFrom(_, _, _, _, _)
\* left-to-right fold of a chain: acc op cur, with cur the integer being read
FoldFrom(txt, i, acc, op, cur) ==
    IF i > Len(txt) THEN FoldStep(acc, op, cur)
    ELSE IF IsDigit(txt[i]) THEN FoldFrom(txt, i + 1, acc, op, 10 * cur + DigitValue(txt[i]))
    ELSE FoldFrom(txt, i + 1, FoldStep(acc, op, cur), txt[i], 0)

FoldChain(txt) == FoldFrom(txt, 1, 0, "+", 0)

IsFoldableChain(txt) ==
    \/ IsChain(txt, {"+", "-"})
    \/ IsChain(txt, {"*", "/"}) /\ DivisorsNonZero(txt)

\* ---------------------------------------------------------------- claims

\* C1: a bracket-free expression of the grammar without a zero divisor
\* returns its value under two-level precedence, left-to-right folding and
\* floor division of each quotient on its own.
C1_PrecedenceValue ==
    (Done /\ ~HasBrackets /\ Conforms /\ ~Ref.dz)
        => (status = "returned" /\ ret = IntV(Ref.val))

\* C2: a value returned for an expression of the grammar that contains
\* brackets is the value with each bracketed sub-expression used as one
\* factor of the enclosing expression.
C2_BracketsAreFactors ==
    (status = "returned" /\ HasBrackets /\ Conforms /\ ~Ref.dz)
        => ret = IntV(Ref.val)

\* C3: every expression of the grammar without division by zero is
\* accepted: ar_expr returns and raises no error for it.
C3_GrammarAccepted ==
    (Done /\ Conforms /\ ~Ref.dz) => status = "returned"

\* C4: a chain joined only by + and -, or only by * and / with non-zero
\* divisors, returns its left-to-right fold.
C4_LeftAssociative ==
    (Done /\ IsFoldableChain(text))
        => (status = "returned" /\ ret = IntV(FoldChain(text)))

\* C4 witness: a chain with two subtractions has returned its fold.
C4_Witness ==
    /\ status = "returned"
    /\ IsChain(text, {"+", "-"})
    /\ Cardinality({i \in 1..Len(text) : text[i] = "-"}) >= 2
    /\ ret = IntV(FoldChain(text))

\* two integers with only spaces between them
JuxtaposedIntegers(txt) ==
    \E i \in 1..Len(txt) : \E j \in (i + 2)..Len(txt) :
        /\ IsDigit(txt[i]) /\ IsDigit(txt[j])
        /\ \A m \in (i + 1)..(j - 1) : txt[m] = " "

\* C5: ar_expr returns only with the whole input consumed: the lexer is at
\* the end of the text and current_token is EOF; two integers with no
\* operator between them end in an error.
C5_ReturnsAtEndOfInput ==
    /\ status = "returned" => (current_token.type = EOF /\ pos > Len(text) - 1)
    /\ (Done /\ JuxtaposedIntegers(text)) => status = "error"

StartsWrong(txt) == Len(txt) >= 1 /\ txt[1] \in OperatorChars \cup {")"}
OperatorWithoutOperand(txt) ==
    \E i \in 1..Len(txt) :
        /\ txt[i] \in OperatorChars
        /\ ~(IsDigit(CharAt(txt, i + 1)) \/ CharAt(txt, i + 1) = "(")
WhitespaceFree(txt) == \A i \in 1..Len(txt) : txt[i] \notin WhitespaceChars

\* C6: an input that starts with an operator or ')', or in which an
\* operator is followed by anything but an integer or '(', ends in an error.
C6_UnexpectedTokenFails ==
    (Done /\ WhitespaceFree(text) /\ (StartsWrong(text) \/ OperatorWithoutOperand(text)))
        => status = "error"

CountUpTo(txt, c, n) == Cardinality({i \in 1..n : txt[i] = c})
Unbalanced(txt) ==
    \/ CountUpTo(txt, "(", Len(txt)) # CountUpTo(txt, ")", Len(txt))
    \/ \E n \in 1..Len(txt) : CountUpTo(txt, ")", n) > CountUpTo(txt, "(", n)

\* C7: an input with an unmatched '(' or ')' ends in an error.
C7_UnmatchedBracketFails ==
    (Done /\ Unbalanced(text)) => status = "error"

\* C8: an expression of the grammar in which a divisor evaluates to 0 ends
\* in a ZeroDivisionError.
C8_DivisionByZeroFails ==
    (Done /\ Conforms /\ Ref.dz) => (status = "error" /\ error = "ZeroDivisionError")

Strip(txt) == SelectSeq(txt, LAMBDA c : c \notin WhitespaceChars)
\* no whitespace stands between two digits
IntegersNotSplit(txt) ==
    \A i \in 1..Len(txt) : \A j \in (i + 2)..Len(txt) :
        ~(/\ IsDigit(txt[i]) /\ IsDigit(txt[j])
          /\ \A m \in (i + 1)..(j - 1) : txt[m] \in WhitespaceChars)

\* C9: spaces and tabs around the tokens of a chain do not change its result.
C9_WhitespaceSkipped ==
    (Done /\ IntegersNotSplit(text) /\ IsFoldableChain(Strip(text)))
        => (status = "returned" /\ ret = IntV(FoldChain(Strip(text))))

\* C10: a returned value is an integer, and the operands of an applied
\* operation are integers, never the value of an operator or EOF token.
C10_IntegersOnly ==
    /\ status = "returned" => ret.k = "int"
    /\ \A i \in 1..Len(stack) :
        (stack[i].fn = "continue_ar_expr" /\ stack[i].pc \in {"tail", "after_operand"})
            => (stack[i].left.value.k = "int" /\ stack[i].right.value.k = "int")

====
